---------------------------- MODULE Spec2Model ----------------------------
(***************************************************************************)
(* Model of scripts/gen_reject.py: fetch the upstream rule lists, convert  *)
(* them into Clash rules, simplify the rule list and write reject.list.    *)
(*                                                                         *)
(* A Python str is modelled as a sequence of one-character strings, so     *)
(* that strip, split, join, upper/lower and the comment and anchor         *)
(* patterns are computed character by character as the code computes      *)
(* them.  A Rule is a record [rtype, value, options].                      *)
(***************************************************************************)
EXTENDS Integers, Sequences, FiniteSets, TLC

(***************************************************************************)
(* Characters                                                              *)
(***************************************************************************)

\* The printable ASCII characters in code-point order: 32 .. 95, and below
\* 97 .. 126 (the grave accent, 96, is left out).
AsciiLow ==
  <<" ","!","\"","#","$","%","&","'","(",")","*","+",",","-",".","/",
    "0","1","2","3","4","5","6","7","8","9",":",";","<","=",">","?","@",
    "A","B","C","D","E","F","G","H","I","J","K","L","M","N","O","P","Q",
    "R","S","T","U","V","W","X","Y","Z","[","\\","]","^","_">>

AsciiHigh ==
  <<"a","b","c","d","e","f","g","h","i","j","k","l","m","n","o","p","q",
    "r","s","t","u","v","w","x","y","z","{","|","}","~">>

Control == {"\t", "\n", "\r"}

Chars ==
  {AsciiLow[k] : k \in 1..Len(AsciiLow)}
  \cup {AsciiHigh[k] : k \in 1..Len(AsciiHigh)} \cup Control

\* ord(c)
OrdTable ==
  [c \in Chars |->
     IF c = "\t" THEN 9
     ELSE IF c = "\n" THEN 10
     ELSE IF c = "\r" THEN 13
     ELSE IF \E k \in 1..Len(AsciiLow) : AsciiLow[k] = c
     THEN 31 + (CHOOSE k \in 1..Len(AsciiLow) : AsciiLow[k] = c)
     ELSE 96 + (CHOOSE k \in 1..Len(AsciiHigh) : AsciiHigh[k] = c)]

Ord(c) == OrdTable[c]

\* chr(n) for a printable code point
Chr(n) == IF n <= 95 THEN AsciiLow[n - 31] ELSE AsciiHigh[n - 96]

\* str.isspace / the pattern class \s, on the characters above
IsSpace(c) == c \in {" ", "\t", "\n", "\r"}

\* the pattern class [0-9]
IsDigit(c) == Ord(c) >= 48 /\ Ord(c) <= 57

UpperChar(c) == IF Ord(c) >= 97 /\ Ord(c) <= 122 THEN Chr(Ord(c) - 32) ELSE c

LowerChar(c) == IF Ord(c) >= 65 /\ Ord(c) <= 90 THEN Chr(Ord(c) + 32) ELSE c

(***************************************************************************)
(* str methods                                                             *)
(***************************************************************************)

Upper(s) == [k \in 1..Len(s) |-> UpperChar(s[k])]

Lower(s) == [k \in 1..Len(s) |-> LowerChar(s[k])]

Min(a, b) == IF a <= b THEN a ELSE b

\* str.startswith
StartsWith(s, p) == Len(s) >= Len(p) /\ SubSeq(s, 1, Len(p)) = p

\* str.endswith
EndsWith(s, p) == Len(s) >= Len(p) /\ SubSeq(s, Len(s) - Len(p) + 1, Len(s)) = p

\* str.strip(): drop leading and trailing whitespace
Strip(s) ==
  LET keep == {k \in 1..Len(s) : ~IsSpace(s[k])}
  IN IF keep = {} THEN <<>>
     ELSE LET lo == CHOOSE k \in keep : \A j \in keep : k <= j
              hi == CHOOSE k \in keep : \A j \in keep : k >= j
          IN SubSeq(s, lo, hi)

\* the smallest member of a non-empty set of integers
Least(S) == CHOOSE k \in S : \A j \in S : k <= j

\* str.split(sep) for a one-character separator
RECURSIVE Split(_, _)
Split(s, sep) ==
  LET hits == {k \in 1..Len(s) : s[k] = sep}
  IN IF hits = {} THEN <<s>>
     ELSE <<SubSeq(s, 1, Least(hits) - 1)>>
          \o Split(SubSeq(s, Least(hits) + 1, Len(s)), sep)

\* sep.join(parts)
RECURSIVE Join(_, _)
Join(parts, sep) ==
  IF parts = <<>> THEN <<>>
  ELSE IF Len(parts) = 1 THEN parts[1]
  ELSE parts[1] \o <<sep>> \o Join(Tail(parts), sep)

\* str.splitlines(): break at \n, \r and \r\n; no empty last line
RECURSIVE SplitLines(_)
SplitLines(s) ==
  LET hits == {k \in 1..Len(s) : s[k] \in {"\n", "\r"}}
  IN IF s = <<>> THEN <<>>
     ELSE IF hits = {} THEN <<s>>
     ELSE LET k == Least(hits)
              next == IF s[k] = "\r" /\ k < Len(s) /\ s[k + 1] = "\n"
                      THEN k + 2 ELSE k + 1
          IN <<SubSeq(s, 1, k - 1)>> \o SplitLines(SubSeq(s, next, Len(s)))

\* str.partition(sep): <<head, tail>>, the tail empty when sep is absent
Partition(s, sep) ==
  LET hits == {k \in 1..Len(s) : s[k] = sep}
  IN IF hits = {} THEN <<s, <<>>>>
     ELSE <<SubSeq(s, 1, Least(hits) - 1), SubSeq(s, Least(hits) + 1, Len(s))>>

\* s < t in Python's str ordering (code points, left to right)
StrLess(s, t) ==
  \E k \in 1..(Min(Len(s), Len(t)) + 1) :
     /\ \A j \in 1..(k - 1) : s[j] = t[j]
     /\ \/ k = Len(s) + 1 /\ k <= Len(t)
        \/ k <= Len(s) /\ k <= Len(t) /\ Ord(s[k]) < Ord(t[k])

\* the concatenation of a sequence of sequences
RECURSIVE Concat(_)
Concat(seqs) == IF seqs = <<>> THEN <<>> ELSE Head(seqs) \o Concat(Tail(seqs))

Range(seq) == {seq[k] : k \in 1..Len(seq)}

(***************************************************************************)
(* Rule, the tables                                                        *)
(***************************************************************************)

DOMAIN_ == <<"D","O","M","A","I","N">>
DOMAIN_SUFFIX == <<"D","O","M","A","I","N","-","S","U","F","F","I","X">>
DOMAIN_KEYWORD == <<"D","O","M","A","I","N","-","K","E","Y","W","O","R","D">>
DOMAIN_WILDCARD == <<"D","O","M","A","I","N","-","W","I","L","D","C","A","R","D">>
DOMAIN_REGEX == <<"D","O","M","A","I","N","-","R","E","G","E","X">>
IP_CIDR == <<"I","P","-","C","I","D","R">>
IP_CIDR6 == <<"I","P","-","C","I","D","R","6">>
HOST == <<"H","O","S","T">>
HOST_SUFFIX == <<"H","O","S","T","-","S","U","F","F","I","X">>
HOST_KEYWORD == <<"H","O","S","T","-","K","E","Y","W","O","R","D">>
HOST_WILDCARD == <<"H","O","S","T","-","W","I","L","D","C","A","R","D">>
HOST_REGEX == <<"H","O","S","T","-","R","E","G","E","X">>
IP6_CIDR == <<"I","P","6","-","C","I","D","R">>

\* Rule(rtype, value, options)
Rule(rtype, value, options) ==
  [rtype |-> rtype, value |-> value, options |-> options]

\* Rule.to_line
to_line(rule) == Join(<<rule.rtype, rule.value>> \o rule.options, ",")

TYPE_MAP_QUANX ==
  (HOST :> DOMAIN_) @@ (HOST_SUFFIX :> DOMAIN_SUFFIX)
  @@ (HOST_KEYWORD :> DOMAIN_KEYWORD) @@ (HOST_WILDCARD :> DOMAIN_WILDCARD)
  @@ (HOST_REGEX :> DOMAIN_REGEX) @@ (IP_CIDR :> IP_CIDR) @@ (IP6_CIDR :> IP_CIDR6)

TYPE_ORDER ==
  (DOMAIN_ :> 0) @@ (DOMAIN_SUFFIX :> 1) @@ (DOMAIN_KEYWORD :> 2)
  @@ (DOMAIN_WILDCARD :> 3) @@ (DOMAIN_REGEX :> 4) @@ (IP_CIDR :> 5)
  @@ (IP_CIDR6 :> 6)

\* TYPE_ORDER.get(rtype, 99)
TypeOrder(rtype) == IF rtype \in DOMAIN TYPE_ORDER THEN TYPE_ORDER[rtype] ELSE 99

DOMAIN_LIKE_TYPES == {DOMAIN_, DOMAIN_SUFFIX, DOMAIN_KEYWORD, DOMAIN_WILDCARD}

(***************************************************************************)
(* The adapters                                                            *)
(***************************************************************************)

\* a comment introducer (#, // or ;) at position k of line
MarkerAt(line, k) ==
  /\ k >= 1 /\ k <= Len(line)
  /\ \/ line[k] = "#"
     \/ line[k] = ";"
     \/ line[k] = "/" /\ k < Len(line) /\ line[k + 1] = "/"

\* INLINE_COMMENT_RE.sub("", line).strip(): the pattern \s+(#|//|;).*$
\* matches from the first whitespace run that an introducer follows, to the
\* end of the line.
strip_inline_comment(line) ==
  LET starts == {k \in 1..Len(line) :
                   /\ IsSpace(line[k])
                   /\ \E m \in (k + 1)..Len(line) :
                        /\ MarkerAt(line, m)
                        /\ \A j \in k..(m - 1) : IsSpace(line[j])}
  IN IF starts = {} THEN Strip(line)
     ELSE Strip(SubSeq(line, 1, Least(starts) - 1))

\* REGEX_HAS_BOUNDARY.match(value): ^\^.*\$$
RegexHasBoundary(value) ==
  /\ Len(value) >= 2
  /\ value[1] = "^"
  /\ value[Len(value)] = "$"
  /\ \A k \in 1..Len(value) : value[k] # "\n"

normalize_regex(value) ==
  LET v0 == Strip(value)
      v1 == IF ~StartsWith(v0, <<"^">>) THEN <<"^">> \o v0 ELSE v0
      v2 == IF ~EndsWith(v1, <<"$">>) THEN v1 \o <<"$">> ELSE v1
  IN IF RegexHasBoundary(v0) THEN v0 ELSE v2

\* the lines both adapters skip before looking at the fields
IsCommentLine(line) ==
  \/ line = <<>>
  \/ StartsWith(line, <<"#">>)
  \/ StartsWith(line, <<"/", "/">>)
  \/ StartsWith(line, <<";">>)

NonEmpty(item) == item # <<>>

StripAll(items) == [k \in 1..Len(items) |-> Strip(items[k])]

\* the options parse_quanx keeps: the first non-empty field after the value
\* (the policy name) is dropped
QuanxOptions(parts) ==
  LET remainder == SelectSeq(SubSeq(parts, 3, Len(parts)), NonEmpty)
  IN IF remainder # <<>>
     THEN SelectSeq(StripAll(Tail(remainder)), NonEmpty)
     ELSE <<>>

\* SurgeOptions with the first field after the value dropped, as
\* parse_quanx drops the policy name
SurgeOptionsDropFirst(parts) ==
  IF Len(parts) > 3
  THEN SelectSeq(StripAll(SubSeq(parts, 4, Len(parts))), NonEmpty)
  ELSE <<>>

\* the options parse_surge keeps: every non-empty field after the value
SurgeOptions(parts) ==
  IF Len(parts) > 2
  THEN SelectSeq(StripAll(SubSeq(parts, 3, Len(parts))), NonEmpty)
  ELSE <<>>

\* the value both adapters store: lower-cased for the domain-like types,
\* anchored for DOMAIN-REGEX
NormalValue(kind, value) ==
  LET v == IF kind \in DOMAIN_LIKE_TYPES THEN Lower(value) ELSE value
  IN IF kind = DOMAIN_REGEX THEN normalize_regex(v) ELSE v

\* QuanxLine without the check of the type against TYPE_MAP_QUANX: a type
\* the table lacks is stored as it is
QuanxLineAnyType(raw_line) ==
  LET line0 == Strip(raw_line)
      line == strip_inline_comment(line0)
      parts == StripAll(Split(line, ","))
      kind_raw == Upper(parts[1])
      kind == IF kind_raw \in DOMAIN TYPE_MAP_QUANX
              THEN TYPE_MAP_QUANX[kind_raw] ELSE kind_raw
      value == Strip(parts[2])
  IN IF IsCommentLine(line0) THEN <<>>
     ELSE IF line = <<>> THEN <<>>
     ELSE IF Len(parts) < 2 THEN <<>>
     ELSE IF value = <<>> THEN <<>>
     ELSE <<Rule(kind, NormalValue(kind, value), QuanxOptions(parts))>>

\* one iteration of parse_quanx's loop: the rules (none or one) of a line
QuanxLine(raw_line) ==
  LET line0 == Strip(raw_line)
      line == strip_inline_comment(line0)
      parts == StripAll(Split(line, ","))
      kind_raw == Upper(parts[1])
      value == Strip(parts[2])
  IN IF IsCommentLine(line0) THEN <<>>
     ELSE IF line = <<>> THEN <<>>
     ELSE IF Len(parts) < 2 THEN <<>>
     ELSE IF kind_raw \notin DOMAIN TYPE_MAP_QUANX THEN <<>>
     ELSE IF value = <<>> THEN <<>>
     ELSE <<Rule(TYPE_MAP_QUANX[kind_raw],
                 NormalValue(TYPE_MAP_QUANX[kind_raw], value),
                 QuanxOptions(parts))>>

\* one iteration of parse_surge's loop
SurgeLine(raw_line) ==
  LET line0 == Strip(raw_line)
      line == strip_inline_comment(line0)
      parts == StripAll(Split(line, ","))
      kind == Upper(parts[1])
      value == Strip(parts[2])
  IN IF IsCommentLine(line0) THEN <<>>
     ELSE IF line = <<>> THEN <<>>
     ELSE IF Len(parts) < 2 THEN <<>>
     ELSE IF value = <<>> THEN <<>>
     ELSE <<Rule(kind, NormalValue(kind, value), SurgeOptions(parts))>>

parse_quanx(content) ==
  LET lines == SplitLines(content)
  IN Concat([k \in 1..Len(lines) |-> QuanxLine(lines[k])])

parse_surge(content) ==
  LET lines == SplitLines(content)
  IN Concat([k \in 1..Len(lines) |-> SurgeLine(lines[k])])

(***************************************************************************)
(* The dynamic-label promoter                                              *)
(***************************************************************************)

\* value.split(".")
Labels(value) == Split(value, ".")

\* IsDynamic without the length test
IsDynamicAnyLength(label) == \E k \in 1..Len(label) : IsDigit(label[k])

\* LABEL_WITH_DIGITS.search(label) and len(label) >= 4
IsDynamic(label) ==
  /\ \E k \in 1..Len(label) : IsDigit(label[k])
  /\ Len(label) >= 4

\* promote_dynamic_labels(rule): <<>> for None, <<r>> for the rule r
promote_dynamic_labels(rule) ==
  LET labels == Labels(rule.value)
      dynamic_positions ==
        {idx \in 1..(Len(labels) - 2) : IsDynamic(labels[idx])}
      new_labels ==
        [idx \in 1..Len(labels) |->
           IF idx \in dynamic_positions THEN <<"*">> ELSE labels[idx]]
  IN IF rule.rtype # DOMAIN_ THEN <<>>
     ELSE IF Len(labels) < 3 THEN <<>>
     ELSE IF dynamic_positions = {} THEN <<>>
     ELSE <<Rule(DOMAIN_WILDCARD, Join(new_labels, "."), rule.options)>>

\* the items of seq whose index is not in drop, in order
Without(seq, drop) ==
  Concat([idx \in 1..Len(seq) |-> IF idx \in drop THEN <<>> ELSE <<seq[idx]>>])

\* simplify_rules, the promotion loop: the promoted rules, in input order
PromotedOf(rules) ==
  Concat([idx \in 1..Len(rules) |-> promote_dynamic_labels(rules[idx])])

\* simplify_rules, the promotion loop: consumed_indexes
ConsumedIndexes(rules) ==
  {idx \in 1..Len(rules) : promote_dynamic_labels(rules[idx]) # <<>>}

(***************************************************************************)
(* The suffix engine                                                       *)
(*                                                                         *)
(* Indexes into a list count from 1 here and from 0 in the code.  A        *)
(* candidate key is a record [suffix, prefix_count]; suffix_map is a       *)
(* function from the keys to sets of indexes into remaining.               *)
(***************************************************************************)

\* the keys one DOMAIN value is recorded under
KeysOf(value) ==
  LET labels == Labels(value)
      max_suffix_len == Min(Len(labels) - 1, 5)
  IN IF Len(labels) < 3 THEN {}
     ELSE {[suffix |-> SubSeq(labels, Len(labels) - suffix_len + 1, Len(labels)),
            prefix_count |-> Len(labels) - suffix_len] :
             suffix_len \in {n \in 2..max_suffix_len : Len(labels) - n >= 1}}

\* simplify_rules, candidate indexing
BuildSuffixMap(rest) ==
  LET domain_indexes == {idx \in 1..Len(rest) : rest[idx].rtype = DOMAIN_}
      keys == UNION {KeysOf(rest[idx].value) : idx \in domain_indexes}
  IN [k \in keys |-> {idx \in domain_indexes : k \in KeysOf(rest[idx].value)}]

\* candidate_key(item)
candidate_key(k, indexes) ==
  <<0 - Len(k.suffix), k.prefix_count, 0 - Cardinality(indexes)>>

\* a < b for two sort keys of three integers
KeyLess(a, b) ==
  \/ a[1] < b[1]
  \/ a[1] = b[1] /\ a[2] < b[2]
  \/ a[1] = b[1] /\ a[2] = b[2] /\ a[3] < b[3]

\* NextCandidates without the sort: the dict is walked in any order
NextCandidatesUnsorted(smap, todo) == todo

\* sorted(suffix_map.items(), key=candidate_key): the candidates that may
\* come next among those not yet visited.  sorted() is stable, so candidates
\* of equal key keep the order in which the dict received them; any of them
\* is allowed here, which includes that order.
NextCandidates(smap, todo) ==
  {k \in todo :
     \A j \in todo :
        ~KeyLess(candidate_key(j, smap[j]), candidate_key(k, smap[k]))}

\* the characters re.escape puts a backslash before
SpecialChars ==
  {"(", ")", "[", "]", "{", "}", "?", "*", "+", "-", "|", "^", "$", "\\",
   ".", "&", "~", "#", " ", "\t", "\n", "\r"}

\* re.escape(s)
ReEscape(s) ==
  Concat([k \in 1..Len(s) |->
            IF s[k] \in SpecialChars THEN <<"\\", s[k]>> ELSE <<s[k]>>])

\* r"\.".join(["[^.]+"] * prefix_count)
PrefixPattern(prefix_count) ==
  Concat([k \in 1..prefix_count |->
            (IF k > 1 THEN <<"\\", ".">> ELSE <<>>) \o <<"[", "^", ".", "]", "+">>])

\* the generalized rule of a candidate
NewRule(k, options) ==
  LET suffix_str == Join(k.suffix, ".")
  IN IF k.prefix_count = 1
     THEN Rule(DOMAIN_WILDCARD, <<"*", ".">> \o suffix_str, options)
     ELSE Rule(DOMAIN_REGEX,
               <<"^">> \o PrefixPattern(k.prefix_count) \o <<"\\", ".">>
                 \o ReEscape(suffix_str) \o <<"$">>,
               options)

GenericSuffixes ==
  {<<"c","o","m">>, <<"n","e","t">>, <<"o","r","g">>, <<"c","n">>}

\* ActiveIndexes without the exclusion of the consumed indexes
ActiveIndexesStale(smap, gone, k) == smap[k]

\* active_indexes: the indexes of key k that no accepted candidate consumed
ActiveIndexes(smap, gone, k) == {idx \in smap[k] : idx \notin gone}

\* Outcome without the test that the active rules share their options
OutcomeIgnoringOptions(rest, smap, gone, existing, k) ==
  LET active_indexes == ActiveIndexes(smap, gone, k)
      options == rest[CHOOSE idx \in active_indexes : TRUE].options
  IN IF Cardinality(active_indexes) < 2 THEN "support"
     ELSE IF Len(k.suffix) < 2 \/ Join(k.suffix, ".") \in GenericSuffixes
     THEN "generic"
     ELSE IF NewRule(k, options) \in existing THEN "exists"
     ELSE "accepted"

\* what one iteration of the candidate loop decides for key k
Outcome(rest, smap, gone, existing, k) ==
  LET active_indexes == ActiveIndexes(smap, gone, k)
      options_set == {rest[idx].options : idx \in active_indexes}
      options == CHOOSE o \in options_set : TRUE
  IN IF Cardinality(active_indexes) < 2 THEN "support"
     ELSE IF Cardinality(options_set) # 1 THEN "options"
     ELSE IF Len(k.suffix) < 2 \/ Join(k.suffix, ".") \in GenericSuffixes
     THEN "generic"
     ELSE IF NewRule(k, options) \in existing THEN "exists"
     ELSE "accepted"

\* the rule an accepted candidate emits
Emitted(rest, smap, gone, k) ==
  LET active_indexes == ActiveIndexes(smap, gone, k)
  IN NewRule(k, rest[CHOOSE idx \in active_indexes : TRUE].options)

\* one iteration of the candidate loop on the state st of the pass
CandidateStep(rest, smap, st, k) ==
  LET active_indexes == ActiveIndexes(smap, st.removed, k)
      outcome == Outcome(rest, smap, st.removed, st.existing_rules, k)
      new_rule == Emitted(rest, smap, st.removed, k)
  IN IF outcome = "accepted"
     THEN [removed |-> st.removed \cup active_indexes,
           generalized |-> st.generalized \cup {new_rule},
           existing_rules |-> st.existing_rules \cup {new_rule}]
     ELSE st

\* the sort key of sorted(generalized, ...): (TYPE_ORDER.get(rtype, 99), value)
RuleKeyLess(a, b) ==
  \/ TypeOrder(a.rtype) < TypeOrder(b.rtype)
  \/ TypeOrder(a.rtype) = TypeOrder(b.rtype) /\ StrLess(a.value, b.value)

\* sorted(S, key=...) of a set S: every arrangement of S in which no item
\* comes before one of smaller key (a set has no order of its own)
SortedArrangements(S) ==
  {q \in [1..Cardinality(S) -> S] :
     /\ \A a, b \in 1..Cardinality(S) : a # b => q[a] # q[b]
     /\ \A a, b \in 1..Cardinality(S) : a < b => ~RuleKeyLess(q[b], q[a])}

\* the last loop of simplify_rules: first occurrences, in order
Unique(seq) ==
  Concat([k \in 1..Len(seq) |->
            IF \E j \in 1..(k - 1) : seq[j] = seq[k] THEN <<>> ELSE <<seq[k]>>])

\* Assembled without the promoted rules
AssembledWithoutPromoted(rest, gone, sorted_generalized, promo) ==
  Unique(Without(rest, gone) \o sorted_generalized)

\* simplify_rules, assembly, for one arrangement of the generalized rules
Assembled(rest, gone, sorted_generalized, promo) ==
  Unique(Without(rest, gone) \o sorted_generalized \o promo)

\* the state of the candidate pass before its first iteration
PassStart(rest) ==
  [removed |-> {}, generalized |-> {}, existing_rules |-> Range(rest)]

\* the candidate loop run to its end from state st, over the keys in todo
RECURSIVE RunPass(_, _, _, _)
RunPass(rest, smap, todo, st) ==
  IF todo = {} THEN st
  ELSE LET k == CHOOSE c \in NextCandidates(smap, todo) : TRUE
       IN RunPass(rest, smap, todo \ {k}, CandidateStep(rest, smap, st, k))

\* simplify_rules(rules), with one order fixed where the code's order is
\* free (candidates of equal key, the arrangement of the generalized set)
simplify_rules(rules) ==
  LET promo == PromotedOf(rules)
      rest == Without(rules, ConsumedIndexes(rules))
      smap == BuildSuffixMap(rest)
      final == RunPass(rest, smap, DOMAIN smap, PassStart(rest))
  IN Assembled(rest, final.removed,
               CHOOSE q \in SortedArrangements(final.generalized) : TRUE, promo)

(***************************************************************************)
(* sort_rules                                                              *)
(***************************************************************************)

\* sort_key(item)
sort_key(item) ==
  LET p == Partition(item, ",")
  IN <<TypeOrder(p[1]), p[1], p[2]>>

\* a < b for two keys (order, rule_type, remainder)
SortKeyLess(a, b) ==
  \/ a[1] < b[1]
  \/ a[1] = b[1] /\ StrLess(a[2], b[2])
  \/ a[1] = b[1] /\ a[2] = b[2] /\ StrLess(a[3], b[3])

\* x put into the sorted list s after every item whose key is not greater
InsertSorted(x, s) ==
  LET n == Cardinality({k \in 1..Len(s) : ~SortKeyLess(sort_key(x), sort_key(s[k]))})
  IN SubSeq(s, 1, n) \o <<x>> \o SubSeq(s, n + 1, Len(s))

\* sorted(lines, key=sort_key): a stable sort
RECURSIVE sort_rules(_)
sort_rules(lines) ==
  IF lines = <<>> THEN <<>>
  ELSE InsertSorted(lines[Len(lines)], sort_rules(SubSeq(lines, 1, Len(lines) - 1)))

\* rule.to_line() for rule in simplified
ToLines(rules) == [k \in 1..Len(rules) |-> to_line(rules[k])]

(***************************************************************************)
(* The program's inputs                                                    *)
(***************************************************************************)

SOURCES ==
  <<[kind |-> "quanx",
     url |-> "https://raw.githubusercontent.com/enriquephl/QuantumultX_config/main/filters/NoMalwares.conf",
     description |-> "NoMalwares (Quantumult X)"],
    [kind |-> "quanx",
     url |-> "https://raw.githubusercontent.com/Elysian-Realme/FuGfConfig/main/ConfigFile/QuantumultX/FuckRogueSoftwareRules.conf",
     description |-> "FuckRogueSoftwareRules (Quantumult X)"],
    [kind |-> "surge",
     url |-> "https://raw.githubusercontent.com/SukkaLab/ruleset.skk.moe/master/List/non_ip/reject-no-drop.conf",
     description |-> "Reject No Drop (Surge)"]>>

\* the most rule lines of one downloaded list
MaxLines == 2

\* the most rules of a list handed to simplify_rules directly
MaxRules == 4

\* the most options of a rule that is serialized and parsed again
MaxOptions == 2

\* the clock readings a run may see
MaxClock == 2

\* Lines a Quantumult X list may hold:
\*   HOST,x.a.e.c,reject
\*   host, Y.a.e.c , reject  # c
\*   USER-AGENT,foo,reject
\*   IP6-CIDR,::1/128,reject,no-resolve
QuanxLines ==
  <<<<"H","O","S","T",",","x",".","a",".","e",".","c",",","r","e","j","e","c","t">>,
    <<"h","o","s","t",","," ","Y",".","a",".","e",".","c"," ",","," ","r","e","j","e","c","t"," "," ","#"," ","c">>,
    <<"U","S","E","R","-","A","G","E","N","T",",","f","o","o",",","r","e","j","e","c","t">>,
    <<"I","P","6","-","C","I","D","R",",",":",":","1","/","1","2","8",",","r","e","j","e","c","t",",","n","o","-","r","e","s","o","l","v","e">>>>

\* Lines a Surge list may hold:
\*   DOMAIN,x.b.e.c
\*   domain,Y.b.e.c // c
\*   USER-AGENT,Foo*
\*   DOMAIN-REGEX,e\.c,extended
SurgeLines ==
  <<<<"D","O","M","A","I","N",",","x",".","b",".","e",".","c">>,
    <<"d","o","m","a","i","n",",","Y",".","b",".","e",".","c"," ","/","/"," ","c">>,
    <<"U","S","E","R","-","A","G","E","N","T",",","F","o","o","*">>,
    <<"D","O","M","A","I","N","-","R","E","G","E","X",",","e","\\",".","c",",","e","x","t","e","n","d","e","d">>>>

\* a downloaded list: the comment line "# list", then at most MaxLines of
\* the lines above, each ended by a line break
TextsOf(lines) ==
  {<<"#"," ","l","i","s","t","\n">>
     \o Concat([k \in 1..Len(lines) |->
                  IF k \in chosen THEN lines[k] \o <<"\n">> ELSE <<>>]) :
     chosen \in {c \in SUBSET (1..Len(lines)) : Cardinality(c) <= MaxLines}}

\* what urlopen(url).read().decode() may return for a source of this kind
Texts(kind) == IF kind = "quanx" THEN TextsOf(QuanxLines) ELSE TextsOf(SurgeLines)

x_a_e_c == <<"x",".","a",".","e",".","c">>
y_a_e_c == <<"y",".","a",".","e",".","c">>
z_a_e_c == <<"z",".","a",".","e",".","c">>
x_b_e_c == <<"x",".","b",".","e",".","c">>
y_b_e_c == <<"y",".","b",".","e",".","c">>
opt == <<"o","p","t">>
no_resolve == <<"n","o","-","r","e","s","o","l","v","e">>
a1_track_example_com ==
  <<"a","1",".","t","r","a","c","k",".","e","x","a","m","p","l","e",".","c","o","m">>
b2_track_example_com ==
  <<"b","2",".","t","r","a","c","k",".","e","x","a","m","p","l","e",".","c","o","m">>

\* Rules a deduplicated list may hold when simplify_rules is called:
\* sibling hosts with equal and with different options, a host with empty
\* labels (..e.c), a wildcard that a candidate would emit, a host with a
\* dynamic label (ab12), the hosts of the specification's first example, a
\* two-label host and a rule that is no DOMAIN rule.
RulePool ==
  <<Rule(DOMAIN_, x_a_e_c, <<>>),
    Rule(DOMAIN_, y_a_e_c, <<>>),
    Rule(DOMAIN_, y_a_e_c, <<opt>>),
    Rule(DOMAIN_, z_a_e_c, <<opt>>),
    Rule(DOMAIN_, x_b_e_c, <<>>),
    Rule(DOMAIN_, y_b_e_c, <<>>),
    Rule(DOMAIN_, <<".",".","e",".","c">>, <<>>),
    Rule(DOMAIN_WILDCARD, <<"*",".","a",".","e",".","c">>, <<>>),
    Rule(DOMAIN_, <<"a","b","1","2",".","a",".","e",".","c">>, <<>>),
    Rule(DOMAIN_, a1_track_example_com, <<>>),
    Rule(DOMAIN_, b2_track_example_com, <<>>),
    Rule(DOMAIN_, <<"e",".","c">>, <<>>),
    Rule(IP_CIDR, <<"1",".","2",".","3",".","4","/","3","2">>, <<no_resolve>>)>>

\* the lists simplify_rules is given: at most MaxRules rules of the pool,
\* no rule twice (main hands it a deduplicated list)
RuleLists ==
  {Without(RulePool, (1..Len(RulePool)) \ chosen) :
     chosen \in {c \in SUBSET (1..Len(RulePool)) : Cardinality(c) <= MaxRules}}

(***************************************************************************)
(* State                                                                   *)
(***************************************************************************)

VARIABLES
  pc,             \* where the run is
  next,           \* main: the index in SOURCES of the source fetched next
  texts,          \* main: the text fetch_text returned for each source so far
  fetched,        \* the URLs fetch_text was called with, in order
  collected,      \* main: collected; simplify_rules: rules
  seen,           \* main: seen
  exit,           \* <<>> while running, then <<[code, message, url]>>
  file,           \* the rule file at TARGET_PATH
  promoted,       \* simplify_rules: promoted
  remaining,      \* simplify_rules: remaining
  suffix_map,     \* simplify_rules: suffix_map
  pending,        \* the keys the candidate loop has not visited yet
  removed,        \* simplify_rules: removed
  generalized,    \* simplify_rules: generalized
  existing_rules, \* simplify_rules: existing_rules
  log,            \* what each iteration of the candidate loop did, in order
  simplified,     \* simplify_rules: its result, unique_rules
  rt              \* a rule, its line and the rules parsed back from the line

vars ==
  <<pc, next, texts, fetched, collected, seen, exit, file, promoted, remaining,
    suffix_map, pending, removed, generalized, existing_rules, log, simplified, rt>>

mainVars == <<next, texts, fetched, collected, seen, exit, file>>

simplifyVars ==
  <<promoted, remaining, suffix_map, pending, removed, generalized,
    existing_rules, log, simplified>>

\* the file a run finds: what an earlier run wrote
PreviousFile == [generated |-> 0, lines |-> <<>>]

NoRule == Rule(<<>>, <<>>, <<>>)

InitMain ==
  /\ next = 1
  /\ texts = <<>>
  /\ fetched = <<>>
  /\ seen = {}
  /\ exit = <<>>
  /\ file = PreviousFile

InitSimplify ==
  /\ promoted = <<>>
  /\ remaining = <<>>
  /\ suffix_map = [k \in {} |-> {}]
  /\ pending = {}
  /\ removed = {}
  /\ generalized = {}
  /\ existing_rules = {}
  /\ log = <<>>
  /\ simplified = <<>>

InitRoundTrip == rt = [dialect |-> "surge", rule |-> NoRule, line |-> <<>>, parsed |-> <<>>]

\* main, before the first source is fetched
Init ==
  /\ pc = "fetch"
  /\ collected = <<>>
  /\ InitMain /\ InitSimplify /\ InitRoundTrip

(***************************************************************************)
(* main                                                                    *)
(***************************************************************************)

\* parse_quanx if source.kind == "quanx" else parse_surge
Parser(kind, text) == IF kind = "quanx" THEN parse_quanx(text) ELSE parse_surge(text)

\* main's inner loop: the parsed rules not seen yet are appended
Collect(list, known, rules) ==
  list \o Unique(SelectSeq(rules, LAMBDA r : r \notin known))

\* One iteration of main's loop over SOURCES in which fetch_text returns:
\* the text is parsed and its new rules are collected.
FetchOk ==
  /\ pc = "fetch"
  /\ \E text \in Texts(SOURCES[next].kind) :
       /\ texts' = Append(texts, text)
       /\ collected' = Collect(collected, seen, Parser(SOURCES[next].kind, text))
       /\ seen' = seen \cup Range(Parser(SOURCES[next].kind, text))
  /\ fetched' = Append(fetched, SOURCES[next].url)
  /\ next' = next + 1
  /\ pc' = IF next = Len(SOURCES) THEN "promote" ELSE "fetch"
  /\ UNCHANGED <<exit, file, rt>>
  /\ UNCHANGED simplifyVars

\* FetchFail as it would be if the failure were reported and the source
\* skipped: the message is recorded and the loop goes on with the next
\* source
FetchFailSkipsSource ==
  /\ pc = "fetch"
  /\ fetched' = Append(fetched, SOURCES[next].url)
  /\ exit' = <<[code |-> 1, message |-> "Failed to download", url |-> SOURCES[next].url]>>
  /\ texts' = Append(texts, <<>>)
  /\ next' = next + 1
  /\ pc' = IF next = Len(SOURCES) THEN "promote" ELSE "fetch"
  /\ UNCHANGED <<collected, seen, file, rt>>
  /\ UNCHANGED simplifyVars

\* One iteration of main's loop in which urlopen raises URLError:
\* fetch_text raises SystemExit("Failed to download <url>: ..."), which
\* nothing catches, so the interpreter prints the message and exits with 1.
FetchFail ==
  /\ pc = "fetch"
  /\ fetched' = Append(fetched, SOURCES[next].url)
  /\ exit' = <<[code |-> 1, message |-> "Failed to download", url |-> SOURCES[next].url]>>
  /\ pc' = "exit"
  /\ UNCHANGED <<next, texts, collected, seen, file, rt>>
  /\ UNCHANGED simplifyVars

(***************************************************************************)
(* simplify_rules                                                          *)
(***************************************************************************)

\* the promotion loop and the list of the rules it leaves
Promote ==
  /\ pc = "promote"
  /\ promoted' = PromotedOf(collected)
  /\ remaining' = Without(collected, ConsumedIndexes(collected))
  /\ pc' = "index"
  /\ UNCHANGED <<suffix_map, pending, removed, generalized, existing_rules, log, simplified>>
  /\ UNCHANGED <<mainVars, rt>>

\* candidate indexing, and the sets the candidate loop starts from
Index ==
  /\ pc = "index"
  /\ suffix_map' = BuildSuffixMap(remaining)
  /\ pending' = DOMAIN BuildSuffixMap(remaining)
  /\ removed' = PassStart(remaining).removed
  /\ generalized' = PassStart(remaining).generalized
  /\ existing_rules' = PassStart(remaining).existing_rules
  /\ pc' = "candidates"
  /\ UNCHANGED <<promoted, remaining, log, simplified>>
  /\ UNCHANGED <<mainVars, rt>>

\* one iteration of the candidate loop
Candidate ==
  /\ pc = "candidates"
  /\ \E k \in NextCandidates(suffix_map, pending) :
       LET st == [removed |-> removed, generalized |-> generalized,
                  existing_rules |-> existing_rules]
           after == CandidateStep(remaining, suffix_map, st, k)
           outcome == Outcome(remaining, suffix_map, removed, existing_rules, k)
           active == ActiveIndexes(suffix_map, removed, k)
       IN /\ removed' = after.removed
          /\ generalized' = after.generalized
          /\ existing_rules' = after.existing_rules
          /\ pending' = pending \ {k}
          /\ log' = Append(log,
                      [key |-> k,
                       active |-> active,
                       before |-> removed,
                       uniform |-> Cardinality({remaining[idx].options : idx \in active}) = 1,
                       outcome |-> outcome,
                       rule |-> IF outcome = "accepted"
                                THEN <<Emitted(remaining, suffix_map, removed, k)>>
                                ELSE <<>>])
  /\ UNCHANGED <<pc, promoted, remaining, suffix_map, simplified>>
  /\ UNCHANGED <<mainVars, rt>>

\* assembly and the last deduplication, once every candidate was visited
Assemble ==
  /\ pc = "candidates"
  /\ pending = {}
  /\ \E q \in SortedArrangements(generalized) :
       simplified' = Assembled(remaining, removed, q, promoted)
  /\ pc' = "write"
  /\ UNCHANGED <<promoted, remaining, suffix_map, pending, removed, generalized,
                 existing_rules, log>>
  /\ UNCHANGED <<mainVars, rt>>

\* main after simplify_rules: the lines are sorted and the file is written
Write ==
  /\ pc = "write"
  /\ \E now \in 1..MaxClock :
       file' = [generated |-> now, lines |-> sort_rules(ToLines(simplified))]
  /\ exit' = <<[code |-> 0, message |-> "", url |-> ""]>>
  /\ pc' = "done"
  /\ UNCHANGED <<next, texts, fetched, collected, seen, rt>>
  /\ UNCHANGED simplifyVars

Next == FetchOk \/ FetchFail \/ Promote \/ Index \/ Candidate \/ Assemble \/ Write

Spec == Init /\ [][Next]_vars

(***************************************************************************)
(* simplify_rules on its own: called with any list of RuleLists            *)
(***************************************************************************)

InitSimplifyRules ==
  /\ pc = "promote"
  /\ collected \in RuleLists
  /\ InitMain /\ InitSimplify /\ InitRoundTrip

NextSimplifyRules == Promote \/ Index \/ Candidate \/ Assemble

SpecSimplify == InitSimplifyRules /\ [][NextSimplifyRules]_vars

(***************************************************************************)
(* Rule.to_line followed by an adapter, on one rule                        *)
(***************************************************************************)

\* the rule types a dialect writes in the first field of a line
Vocabulary(dialect) ==
  IF dialect = "quanx" THEN DOMAIN TYPE_MAP_QUANX ELSE DOMAIN TYPE_ORDER

\* Values a rule may carry:
\*   x.a.e.c   X.a.e.c   e\.c   ^e\.c$   ^a{1,2}$   1.2.3.4/32   x ;y
ValuePool ==
  {x_a_e_c,
   <<"X",".","a",".","e",".","c">>,
   <<"e","\\",".","c">>,
   <<"^","e","\\",".","c","$">>,
   <<"^","a","{","1",",","2","}","$">>,
   <<"1",".","2",".","3",".","4","/","3","2">>,
   <<"x"," ",";","y">>}

OptionPool == {opt, no_resolve}

\* option sequences of at most MaxOptions tokens
OptionLists == UNION {[1..n -> OptionPool] : n \in 0..MaxOptions}

\* the type a dialect's adapter stores for a first field
StoredType(dialect, rtype) ==
  IF dialect = "quanx" THEN TYPE_MAP_QUANX[rtype] ELSE rtype

\* a value as an adapter leaves it: trimmed, not empty, lower case for the
\* domain-like types, anchored for DOMAIN-REGEX
IsNormalized(dialect, rtype, value) ==
  /\ value # <<>>
  /\ Strip(value) = value
  /\ NormalValue(StoredType(dialect, rtype), value) = value

InitRT ==
  /\ pc = "rule"
  /\ \E dialect \in {"quanx", "surge"} :
       \E rtype \in Vocabulary(dialect) :
          \E value \in {v \in ValuePool : IsNormalized(dialect, rtype, v)} :
             \E options \in OptionLists :
                rt = [dialect |-> dialect, rule |-> Rule(rtype, value, options),
                      line |-> <<>>, parsed |-> <<>>]
  /\ collected = <<>>
  /\ InitMain /\ InitSimplify

\* rule.to_line()
Serialize ==
  /\ pc = "rule"
  /\ rt' = [rt EXCEPT !.line = to_line(rt.rule)]
  /\ pc' = "line"
  /\ UNCHANGED <<mainVars, simplifyVars>>

\* list(parse_quanx(line)) or list(parse_surge(line))
Reparse ==
  /\ pc = "line"
  /\ rt' = [rt EXCEPT !.parsed = Parser(rt.dialect, rt.line)]
  /\ pc' = "parsed"
  /\ UNCHANGED <<mainVars, simplifyVars>>

NextRT == Serialize \/ Reparse

SpecRT == InitRT /\ [][NextRT]_vars

(***************************************************************************)
(* Properties                                                              *)
(***************************************************************************)

\* the iterations of the candidate loop that emitted a rule
AcceptedSteps == {n \in 1..Len(log) : log[n].outcome = "accepted"}

\* A pattern as a sequence of tokens: "LABEL" stands for one or more
\* characters other than the dot, any other token for that character.
\* A glob: * is a label.
GlobTokens(p) == [k \in 1..Len(p) |-> IF p[k] = "*" THEN "LABEL" ELSE p[k]]

\* A regular expression between ^ and $: [^.]+ is a label, \c is c.
RECURSIVE RegexTokens(_)
RegexTokens(p) ==
  IF p = <<>> THEN <<>>
  ELSE IF StartsWith(p, <<"[", "^", ".", "]", "+">>)
  THEN <<"LABEL">> \o RegexTokens(SubSeq(p, 6, Len(p)))
  ELSE IF p[1] = "\\" /\ Len(p) >= 2
  THEN <<p[2]>> \o RegexTokens(SubSeq(p, 3, Len(p)))
  ELSE <<p[1]>> \o RegexTokens(Tail(p))

\* the tokens match the whole of value
RECURSIVE TokensMatch(_, _)
TokensMatch(tokens, value) ==
  IF tokens = <<>> THEN value = <<>>
  ELSE IF tokens[1] = "LABEL"
  THEN \E n \in 1..Len(value) :
          /\ \A j \in 1..n : value[j] # "."
          /\ TokensMatch(Tail(tokens), SubSeq(value, n + 1, Len(value)))
  ELSE /\ value # <<>>
       /\ value[1] = tokens[1]
       /\ TokensMatch(Tail(tokens), Tail(value))

\* the pattern of an emitted rule matches value
PatternMatches(rule, value) ==
  IF rule.rtype = DOMAIN_WILDCARD
  THEN TokensMatch(GlobTokens(rule.value), value)
  ELSE /\ Len(rule.value) >= 2
       /\ rule.value[1] = "^"
       /\ rule.value[Len(rule.value)] = "$"
       /\ TokensMatch(RegexTokens(SubSeq(rule.value, 2, Len(rule.value) - 1)), value)

\* value ends with the labels of key k after exactly k.prefix_count labels,
\* none of them empty
FitsKey(k, value) ==
  LET labels == Labels(value)
  IN /\ Len(labels) = k.prefix_count + Len(k.suffix)
     /\ SubSeq(labels, k.prefix_count + 1, Len(labels)) = k.suffix
     /\ \A j \in 1..k.prefix_count : labels[j] # <<>>

\* C1: generalization soundness.  Every rule an accepted candidate consumed
\* has a value that the emitted pattern matches: it ends with the suffix
\* after exactly prefix_count labels, each of them not empty.
C1_GeneralizationSound ==
  \A n \in AcceptedSteps :
     \A idx \in log[n].active :
        /\ FitsKey(log[n].key, remaining[idx].value)
        /\ PatternMatches(log[n].rule[1], remaining[idx].value)

\* C2: options uniformity.  At every step of the candidate pass, every
\* emitted rule carries the option sequence of every rule its candidate
\* consumed, and the rules marked removed are the ones the accepted
\* candidates consumed.
C2_OptionsUniform ==
  /\ \A n \in AcceptedSteps :
        \A idx \in log[n].active :
           remaining[idx].options = log[n].rule[1].options
  /\ generalized = {log[n].rule[1] : n \in AcceptedSteps}
  /\ removed = UNION {log[n].active : n \in AcceptedSteps}

\* C2's case: one candidate was declined for mixed options and another,
\* whose rules share their options, was accepted.
C2_Witness ==
  /\ \E n \in 1..Len(log) : log[n].outcome = "options"
  /\ \E n \in AcceptedSteps : Cardinality(log[n].active) >= 2

\* C3: minimum support.  Every accepted candidate had at least 2 active
\* rules, none of them consumed before, so it added at least 2 indexes to
\* removed, and no rule is consumed by two accepted candidates.
C3_MinimumSupport ==
  /\ \A n \in AcceptedSteps :
        /\ Cardinality(log[n].active) >= 2
        /\ log[n].active \cap log[n].before = {}
        /\ log[n].before = UNION {log[m].active : m \in {a \in AcceptedSteps : a < n}}
  /\ \A n, m \in AcceptedSteps : n # m => log[n].active \cap log[m].active = {}
  /\ removed = UNION {log[n].active : n \in AcceptedSteps}

\* C3's case: a later candidate whose key holds rules that an accepted
\* candidate consumed was left with fewer than 2 active rules.
C3_Witness ==
  \E n \in AcceptedSteps :
     \E m \in (n + 1)..Len(log) :
        /\ suffix_map[log[m].key] \cap log[n].active # {}
        /\ log[m].outcome = "support"

\* the URL of every source, in the order of SOURCES
Urls == [k \in 1..Len(SOURCES) |-> SOURCES[k].url]

FieldSafe(field) ==
  /\ field # <<>>
  /\ \A k \in 1..Len(field) : field[k] \notin {",", "\n", "\r"}
  /\ strip_inline_comment(field) = field

FieldsSafe(rule) ==
  /\ FieldSafe(rule.rtype)
  /\ FieldSafe(rule.value)
  /\ \A k \in 1..Len(rule.options) : FieldSafe(rule.options[k])

\* C5 as stated: for a rule of a dialect's vocabulary with a normalized
\* value and non-empty options, the dialect's adapter parses the rule's
\* line back into exactly that rule.
C5_RoundTrip == pc = "parsed" => rt.parsed = <<rt.rule>>

\* C5 amended: the line parses back into the rule under parse_surge when
\* no field holds a comma or a comment introducer after whitespace; under
\* parse_quanx it does so only for an IP-CIDR rule without options, since
\* that adapter renames every other type and drops the first option.
C5_RoundTripSurge ==
  pc = "parsed" =>
     /\ (rt.dialect = "surge" /\ FieldsSafe(rt.rule)) => rt.parsed = <<rt.rule>>
     /\ rt.dialect = "quanx" =>
          (rt.parsed = <<rt.rule>>
             <=> FieldsSafe(rt.rule) /\ rt.rule.rtype = IP_CIDR /\ rt.rule.options = <<>>)

\* C5's case: a Surge rule with an anchored value and two options came back.
C5_Witness ==
  /\ pc = "parsed"
  /\ rt.dialect = "surge"
  /\ rt.rule.rtype = DOMAIN_REGEX
  /\ Len(rt.rule.options) = 2
  /\ rt.parsed = <<rt.rule>>

\* the input of the specification's first example
Example1 ==
  <<Rule(DOMAIN_, a1_track_example_com, <<>>),
    Rule(DOMAIN_, b2_track_example_com, <<>>)>>

track_example_com ==
  <<<<"t","r","a","c","k">>, <<"e","x","a","m","p","l","e">>, <<"c","o","m">>>>

\* DOMAIN-WILDCARD,*.track.example.com
Example1Wildcard == Rule(DOMAIN_WILDCARD, <<"*", ".">> \o Join(track_example_com, "."), <<>>)

\* C6 as stated: on the first example the promoter turns each rule into
\* DOMAIN-WILDCARD,*.track.example.com, both rules are consumed by the
\* promotion, and one rule is left after deduplication.
C6_Example1Promoted ==
  collected = Example1 =>
     /\ pc # "promote" =>
          /\ promoted = <<Example1Wildcard, Example1Wildcard>>
          /\ remaining = <<>>
     /\ pc = "write" => simplified = <<Example1Wildcard>>

\* C6 amended: on the first example neither rule is promoted (a1 and b2 have
\* fewer than 4 characters); both reach the suffix engine, whose candidate
\* (track.example.com, 1 prefix label) consumes both and emits
\* DOMAIN-WILDCARD,*.track.example.com, the one rule of the result.
C6_Example1Generalized ==
  collected = Example1 =>
     /\ pc # "promote" => promoted = <<>> /\ remaining = Example1
     /\ pc = "write" =>
          /\ simplified = <<Example1Wildcard>>
          /\ \E n \in AcceptedSteps :
               /\ log[n].key = [suffix |-> track_example_com, prefix_count |-> 1]
               /\ log[n].active = {1, 2}
               /\ log[n].rule = <<Example1Wildcard>>

\* C6's case: simplify_rules has run on the first example.
C6_Witness == collected = Example1 /\ pc = "write"

ClosedTypes == DOMAIN TYPE_ORDER

\* the type field of an output line
LineType(line) == Partition(line, ",")[1]

\* C7 as stated: every rule of either adapter, and every output line, has
\* one of the seven types.
C7_ClosedTypes ==
  /\ \A r \in Range(collected) : r.rtype \in ClosedTypes
  /\ \A k \in 1..Len(file.lines) : LineType(file.lines[k]) \in ClosedTypes

\* the rules parse_surge made of the Surge sources fetched so far
SurgeRules ==
  UNION {Range(parse_surge(texts[k])) :
           k \in {j \in 1..Len(texts) : SOURCES[j].kind = "surge"}}

\* C7 amended: every rule parse_quanx produces has one of the seven types;
\* a collected rule or an output line of another type comes from a Surge
\* source, whose first field parse_surge stores upper-cased as it is.
C7_ClosedTypesQuanx ==
  /\ \A k \in 1..Len(texts) :
        SOURCES[k].kind = "quanx" =>
           \A r \in Range(parse_quanx(texts[k])) : r.rtype \in ClosedTypes
  /\ \A r \in Range(collected) : r.rtype \in ClosedTypes \/ r \in SurgeRules
  /\ \A k \in 1..Len(file.lines) :
        \/ LineType(file.lines[k]) \in ClosedTypes
        \/ \E r \in SurgeRules : r.rtype = LineType(file.lines[k])

\* C7's case: a Quantumult X list with a line of an unsupported type was
\* parsed (the line was dropped) and the file was written.
C7_Witness ==
  /\ pc = "done"
  /\ \E k \in 1..Len(texts) :
        /\ SOURCES[k].kind = "quanx"
        /\ \E line \in Range(SplitLines(texts[k])) :
              /\ Len(Split(line, ",")) >= 2
              /\ Upper(Split(line, ",")[1]) \notin DOMAIN TYPE_MAP_QUANX
              /\ ~IsCommentLine(line)

\* main's loops over the sources and their rules, on the texts fetched
RECURSIVE CollectedFrom(_, _)
CollectedFrom(contents, k) ==
  IF k = 0 THEN <<>>
  ELSE LET before == CollectedFrom(contents, k - 1)
       IN Collect(before, Range(before), Parser(SOURCES[k].kind, contents[k]))

\* C8: determinism.  The rule lines written are a function of the source
\* texts: they do not depend on the order in which candidates of equal sort
\* key are visited, on the order the set of generalized rules is iterated
\* in, or on the clock.
C8_Deterministic ==
  pc = "done" =>
     file.lines = sort_rules(ToLines(simplify_rules(CollectedFrom(texts, Len(texts)))))

\* C8's case: two candidates of equal sort key were both accepted, and the
\* file was written.
C8_Witness ==
  /\ pc = "done"
  /\ \E n, m \in AcceptedSteps :
        /\ n # m
        /\ candidate_key(log[n].key, suffix_map[log[n].key])
             = candidate_key(log[m].key, suffix_map[log[m].key])

\* C9: most specific first.  Of two candidates that hold a common rule the
\* one with the longer suffix is visited first, and no rule is consumed by a
\* candidate with 2 or more prefix labels when a candidate with a longer
\* suffix that holds the rule had, when it was visited, at least 2 active
\* rules with identical options.
C9_MostSpecificFirst ==
  /\ \A n, m \in 1..Len(log) :
        (/\ suffix_map[log[n].key] \cap suffix_map[log[m].key] # {}
         /\ Len(log[n].key.suffix) > Len(log[m].key.suffix)) => n < m
  /\ \A b \in AcceptedSteps :
        log[b].key.prefix_count >= 2 =>
           \A idx \in log[b].active :
              ~\E n \in 1..Len(log) :
                  /\ Len(log[n].key.suffix) > Len(log[b].key.suffix)
                  /\ idx \in suffix_map[log[n].key]
                  /\ Cardinality(log[n].active) >= 2
                  /\ log[n].uniform

\* C10: no rule is lost.  When simplify_rules returns, every input rule is
\* in the result itself, or the rule the promoter made of it is, or the rule
\* emitted by the candidate that consumed it is, with the same options; a
\* rule that is no DOMAIN rule or has fewer than 3 labels is there itself.
C10_NoRuleLost ==
  pc = "write" =>
     \A i \in 1..Len(collected) :
        LET r == collected[i]
        IN /\ \/ r \in Range(simplified)
              \/ /\ promote_dynamic_labels(r) # <<>>
                 /\ promote_dynamic_labels(r)[1] \in Range(simplified)
              \/ \E n \in AcceptedSteps :
                    /\ \E idx \in log[n].active : remaining[idx] = r
                    /\ log[n].rule[1] \in Range(simplified)
                    /\ log[n].rule[1].options = r.options
           /\ (r.rtype # DOMAIN_ \/ Len(Labels(r.value)) < 3) => r \in Range(simplified)

\* C10's case: of one input, a rule was promoted, two were generalized and
\* a rule that is no DOMAIN rule was kept.
C10_Witness ==
  /\ pc = "write"
  /\ promoted # <<>>
  /\ AcceptedSteps # {}
  /\ \E r \in Range(collected) : r.rtype = IP_CIDR /\ r \in Range(simplified)

=============================================================================
